---------------------------- MODULE Spec2Model ----------------------------
(***************************************************************************)
(* Model of src/analyser.py: the StaticCodeAnalyzer rule engine.           *)
(*                                                                         *)
(* A text is a sequence of one-character strings, so that the string       *)
(* methods and regular expressions of the source are computed character    *)
(* by character.  A Diagnostic is one printed line of __print_error.       *)
(***************************************************************************)
EXTENDS Integers, Sequences, FiniteSets, TLC

\* file: the text and syntax tree at self.path_file;
\* count_blank_lines_in_row: the object's field; pc, number_line, node_idx:
\* where run() stands; output: what the current run printed; prev: what the
\* run before printed if it read the same text (else None); runs: the number
\* of runs started after the first
VARIABLES file, count_blank_lines_in_row, pc, number_line, node_idx,
          output, prev, runs

vars == <<file, count_blank_lines_in_row, pc, number_line, node_idx,
          output, prev, runs>>

(* ------------------------------ bounds -------------------------------- *)

MaxLines == 4
MaxRuns == 1
MaxLen == 3
LongPad == 76
MaxNameLen == 4
MaxNodes == 2

(* ----------------------- program constants ---------------------------- *)

long == 79

\* no earlier print-out to compare with
None == <<"None">>

(* ---------------------------- characters ------------------------------ *)

LowerSeq == <<"a","b","c","d","e","f","g","h","i","j","k","l","m",
              "n","o","p","q","r","s","t","u","v","w","x","y","z">>

UpperSeq == <<"A","B","C","D","E","F","G","H","I","J","K","L","M",
              "N","O","P","Q","R","S","T","U","V","W","X","Y","Z">>

Lower == {LowerSeq[i] : i \in 1..Len(LowerSeq)}

Upper == {UpperSeq[i] : i \in 1..Len(UpperSeq)}

Digit == {"0","1","2","3","4","5","6","7","8","9"}

\* what str.strip()/str.lstrip() without argument and the regex \s remove
Whitespace == {" ", "\t", "\n", "\r", "\f"}

\* (?i): case-insensitive comparison of one character
lower(c) ==
  IF c \in Upper
    THEN LowerSeq[CHOOSE i \in 1..Len(UpperSeq) : UpperSeq[i] = c]
    ELSE c

(* --------------------------- str methods ------------------------------ *)

\* the first index of s holding a character outside chars (Len(s) + 1 if none)
first_outside(s, chars) ==
  IF \A i \in 1..Len(s) : s[i] \in chars THEN Len(s) + 1
  ELSE CHOOSE i \in 1..Len(s) :
         s[i] \notin chars /\ \A j \in 1..(i - 1) : s[j] \in chars

\* the last index of s holding a character outside chars (0 if none)
last_outside(s, chars) ==
  IF \A i \in 1..Len(s) : s[i] \in chars THEN 0
  ELSE CHOOSE i \in 1..Len(s) :
         s[i] \notin chars /\ \A j \in (i + 1)..Len(s) : s[j] \in chars

lstrip(s) == SubSeq(s, first_outside(s, Whitespace), Len(s))

rstrip(s, chars) == SubSeq(s, 1, last_outside(s, chars))

strip(s) == rstrip(lstrip(s), Whitespace)

\* s.split(sep)[0]: the text before the first sep (all of s when it has none)
split0(s, sep) ==
  SubSeq(s, 1, first_outside(s, {s[i] : i \in 1..Len(s)} \ {sep}) - 1)

endswith(s, c) == s # <<>> /\ s[Len(s)] = c

(* ------------------------- the line rules ----------------------------- *)

\* a rule's outcome: it returned, or it raised StaticCodeAnalyzerError(code, error)
Returned(count) == [raised |-> FALSE, code |-> "", error |-> "", count |-> count]

Raised(code, error, count) ==
  [raised |-> TRUE, code |-> code, error |-> error, count |-> count]

check_long(line, count) ==
  IF Len(line) > long THEN Raised("S001", "Too long", count)
  ELSE Returned(count)

check_indentation(line, count) ==
  IF line # <<"\n">> /\ (Len(line) - Len(lstrip(line))) % 4 # 0
    THEN Raised("S002", "Indentation is not a multiple of four", count)
    ELSE Returned(count)

check_semicolon(line, count) ==
  LET parts_line0 == split0(line, "#")
  IN IF endswith(rstrip(rstrip(parts_line0, {"\n"}), {" "}), ";")
       THEN Raised("S003", "Unnecessary semicolon", count)
       ELSE Returned(count)

\* re.match(r"[^#]*[^ ]( ?#)", line)
match_spaces(line) ==
  \E i \in 1..Len(line) :
    /\ \A j \in 1..(i - 1) : line[j] # "#"
    /\ line[i] # " "
    /\ \/ i + 1 <= Len(line) /\ line[i + 1] = "#"
       \/ i + 2 <= Len(line) /\ line[i + 1] = " " /\ line[i + 2] = "#"

check_spaces(line, count) ==
  IF match_spaces(line)
    THEN Raised("S004", "At least two spaces required before inline", count)
    ELSE Returned(count)

\* re.search(r"(?i)# *todo", line)
search_todo(line) ==
  \E i \in 1..Len(line) : \E j \in (i + 1)..Len(line) :
    /\ line[i] = "#"
    /\ \A m \in (i + 1)..(j - 1) : line[m] = " "
    /\ j + 3 <= Len(line)
    /\ [m \in 1..4 |-> lower(line[j + m - 1])] = <<"t", "o", "d", "o">>

check_todo_existing(line, count) ==
  IF search_todo(line) THEN Raised("S005", "TODO found", count)
  ELSE Returned(count)

\* the rule with the threshold off by one (a bug the code does not have)
check_blank_lines_from_two(line, count) ==
  IF strip(line) = <<>>
    THEN Returned(count + 1)
    ELSE IF count >= 2
      THEN Raised("S006", "More than two blank lines preceding a code line", 0)
      ELSE Returned(0)

check_blank_lines(line, count) ==
  IF strip(line) = <<>>
    THEN Returned(count + 1)
    ELSE IF count > 2
      THEN Raised("S006", "More than two blank lines preceding a code line", 0)
      ELSE Returned(0)

\* re.match(r"class[ ]{2,}", line)
match_class(line) ==
  /\ Len(line) >= 7
  /\ SubSeq(line, 1, 5) = <<"c", "l", "a", "s", "s">>
  /\ line[6] = " " /\ line[7] = " "

check_class_declaration_spaces(line, count) ==
  IF match_class(line)
    THEN Raised("S007", "Too many spaces after 'class'", count)
    ELSE Returned(count)

\* re.match(r"\s*def[ ]{2,}", line)
match_def(line) ==
  \E k \in 0..Len(line) :
    /\ \A i \in 1..k : line[i] \in Whitespace
    /\ Len(line) >= k + 5
    /\ SubSeq(line, k + 1, k + 3) = <<"d", "e", "f">>
    /\ line[k + 4] = " " /\ line[k + 5] = " "

check_function_declaration_spaces(line, count) ==
  IF match_def(line)
    THEN Raised("S007", "Too many spaces after 'def'", count)
    ELSE Returned(count)

\* self.__check_funcs, in the order __init__ registers them
check_funcs == <<"check_long", "check_indentation", "check_semicolon",
                 "check_spaces", "check_todo_existing", "check_blank_lines",
                 "check_class_declaration_spaces",
                 "check_function_declaration_spaces">>

\* func(line): the call of one registered rule
call(func, line, count) ==
  CASE func = "check_long" -> check_long(line, count)
    [] func = "check_indentation" -> check_indentation(line, count)
    [] func = "check_semicolon" -> check_semicolon(line, count)
    [] func = "check_spaces" -> check_spaces(line, count)
    [] func = "check_todo_existing" -> check_todo_existing(line, count)
    [] func = "check_blank_lines" -> check_blank_lines(line, count)
    [] func = "check_class_declaration_spaces" ->
         check_class_declaration_spaces(line, count)
    [] func = "check_function_declaration_spaces" ->
         check_function_declaration_spaces(line, count)

\* one printed line: "<file>: Line <number_line>: <code> <error>"; name is the
\* identifier an f-string message quotes (<<>> when the message quotes none)
print_error(number, code, error, name) ==
  [line |-> number, code |-> code, error |-> error, name |-> name]

\* __check_errors as a first-match-wins chain: the first rule that raises ends
\* the line (a bug the code does not have)
RECURSIVE check_errors_first_match(_, _, _, _)
check_errors_first_match(i, number, line, count) ==
  IF i > Len(check_funcs) THEN [count |-> count, printed |-> <<>>]
  ELSE LET r == call(check_funcs[i], line, count)
       IN IF r.raised
            THEN [count |-> r.count,
                  printed |-> <<print_error(number, r.code, r.error, <<>>)>>]
            ELSE check_errors_first_match(i + 1, number, line, r.count)

\* __check_errors(number_line, line) from rule i on: every rule is called inside
\* its own try/except, a raise is printed and the loop goes on to the next rule
RECURSIVE check_errors(_, _, _, _)
check_errors(i, number, line, count) ==
  IF i > Len(check_funcs) THEN [count |-> count, printed |-> <<>>]
  ELSE LET r == call(check_funcs[i], line, count)
           rest == check_errors(i + 1, number, line, r.count)
       IN [count |-> rest.count,
           printed |-> (IF r.raised
                          THEN <<print_error(number, r.code, r.error, <<>>)>>
                          ELSE <<>>) \o rest.printed]

(* ---------------------- the syntax-tree rules ------------------------- *)

\* re.match(r"[^A-Z].*", node.name)
match_class_name(name) == name # <<>> /\ name[1] \notin Upper

check_class_name(node) ==
  IF match_class_name(node.name)
    THEN <<print_error(node.lineno, "S008", "should use CamelCase", node.name)>>
    ELSE <<>>

\* the pattern without its underscore prefix, r"[^a-z_].*"
match_function_name_no_prefix(name) ==
  name # <<>> /\ name[1] \notin (Lower \cup {"_"})

\* re.match(r"[_]{,2}[^a-z_].*", node.name)
match_function_name(name) ==
  \E k \in 0..2 :
    /\ k + 1 <= Len(name)
    /\ \A i \in 1..k : name[i] = "_"
    /\ name[k + 1] \notin (Lower \cup {"_"})

check_function_name(node) ==
  IF match_function_name(node.name)
    THEN <<print_error(node.lineno, "S009", "should use snake_case", node.name)>>
    ELSE <<>>

\* re.match(r"[^a-z_].*", name)
match_argument_name(name) == name # <<>> /\ name[1] \notin (Lower \cup {"_"})

RECURSIVE arguments_names(_, _)
arguments_names(node, names) ==
  IF names = <<>> THEN <<>>
  ELSE (IF match_argument_name(Head(names))
          THEN <<print_error(node.lineno, "S010", "should be snake_case",
                             Head(names))>>
          ELSE <<>>) \o arguments_names(node, Tail(names))

RECURSIVE arguments_defaults(_, _)
arguments_defaults(node, defaults) ==
  IF defaults = <<>> THEN <<>>
  ELSE (IF Head(defaults) \in {"List", "Dict", "Set"}
          THEN <<print_error(node.lineno, "S012",
                             "The default argument value is mutable", <<>>)>>
          ELSE <<>>) \o arguments_defaults(node, Tail(defaults))

check_arguments(node) ==
  arguments_names(node, node.args) \o arguments_defaults(node, node.defaults)

\* the tail of ^[a-z][a-z0-9]+(_[a-z0-9]+)*$ once a segment holds a character
RECURSIVE match_segments(_)
match_segments(s) ==
  \/ s = <<>>
  \/ /\ s # <<>>
     /\ Head(s) \in (Lower \cup Digit)
     /\ match_segments(Tail(s))
  \/ /\ Len(s) >= 2
     /\ s[1] = "_"
     /\ s[2] \in (Lower \cup Digit)
     /\ match_segments(Tail(Tail(s)))

\* re.match(r"^[a-z][a-z0-9]+(_[a-z0-9]+)*$", var.id)
match_variable(id) ==
  /\ Len(id) >= 2
  /\ id[1] \in Lower
  /\ id[2] \in (Lower \cup Digit)
  /\ match_segments(Tail(Tail(id)))

RECURSIVE variables_targets(_)
variables_targets(targets) ==
  IF targets = <<>> THEN <<>>
  ELSE (IF Head(targets).kind = "Name" /\ ~match_variable(Head(targets).id)
          THEN <<print_error(Head(targets).lineno, "S011",
                             "in function should be snake_case",
                             Head(targets).id)>>
          ELSE <<>>) \o variables_targets(Tail(targets))

RECURSIVE function_variables(_)
function_variables(body) ==
  IF body = <<>> THEN <<>>
  ELSE (IF Head(body).kind = "Assign"
          THEN variables_targets(Head(body).targets)
          ELSE <<>>) \o function_variables(Tail(body))

check_function_variables(node) == function_variables(node.body)

\* the loop body with the last two checks exchanged (a bug the code does not have)
visit_variables_first(node) ==
  (IF node.kind = "ClassDef" THEN check_class_name(node) ELSE <<>>)
  \o (IF node.kind = "FunctionDef"
        THEN check_function_name(node) \o check_function_variables(node)
             \o check_arguments(node)
        ELSE <<>>)

\* the body of `for node in ast.walk(tree)` for one node
visit(node) ==
  (IF node.kind = "ClassDef" THEN check_class_name(node) ELSE <<>>)
  \o (IF node.kind = "FunctionDef"
        THEN check_function_name(node) \o check_arguments(node)
             \o check_function_variables(node)
        ELSE <<>>)

(* ------------------------------ inputs -------------------------------- *)

\* all texts over alphabet of at most n characters
Strings(alphabet, n) == UNION {[1..k -> alphabet] : k \in 0..n}

\* n filler characters making a physical line long
Fill(n) == [i \in 1..n |-> "x"]

Name(id, lineno) == [kind |-> "Name", id |-> id, lineno |-> lineno]

Attribute(lineno) == [kind |-> "Attribute", id |-> <<>>, lineno |-> lineno]

Assign(targets) == [kind |-> "Assign", targets |-> targets]

Pass == [kind |-> "Pass", targets |-> <<>>]

FunctionDef(name, lineno, args, defaults, body) ==
  [kind |-> "FunctionDef", name |-> name, lineno |-> lineno, args |-> args,
   defaults |-> defaults, body |-> body]

ClassDef(name, lineno) ==
  [kind |-> "ClassDef", name |-> name, lineno |-> lineno, args |-> <<>>,
   defaults |-> <<>>, body |-> <<>>]

\* any other node ast.walk yields (Module, Assign, arguments, ...)
OtherNode ==
  [kind |-> "Module", name |-> <<>>, lineno |-> 0, args |-> <<>>,
   defaults |-> <<>>, body |-> <<>>]

\* what open(path).read() and ast.parse give for one file: its physical lines,
\* whether ast.parse accepts it, and the nodes in ast.walk order
File(lines, parses, nodes) == [lines |-> lines, parses |-> parses, nodes |-> nodes]

\* def F(X=[]): Y = 1
BadFunction ==
  FunctionDef(<<"F">>, 1, <<<<"X">>>>, <<"List">>,
              <<Assign(<<Name(<<"Y">>, 2)>>)>>)

\* physical lines of the file-level runs: an empty line, a whitespace-only line,
\* a clean code line and a code line with an unnecessary semicolon
LineKinds == {<<"\n">>, <<" ", "\n">>, <<"x", "\n">>, <<"x", ";", "\n">>}

Files ==
  {File(ls, p, <<OtherNode, BadFunction>>) :
     ls \in Strings(LineKinds, MaxLines), p \in BOOLEAN}

\* single physical lines, character by character
LineAlphabet == {" ", "\t", "#", ";", "x"}

CharLines ==
  {Fill(n) \o body \o term :
     n \in {0, LongPad}, body \in Strings(LineAlphabet, MaxLen),
     term \in {<<"\n">>, <<>>}} \ {<<>>}

KeywordLines ==
  { <<"c","l","a","s","s"," "," ","A",":","\n">>,
    <<"c","l","a","s","s"," ","A",":","\n">>,
    <<" ","c","l","a","s","s"," "," ","A",":","\n">>,
    <<" "," "," "," ","d","e","f"," "," ","f","(",")",":","\n">>,
    <<"d","e","f"," ","f","(",")",":",";"," ","#","T","o","D","o","\n">>,
    <<"x"," "," ","#"," "," ","t","o","d","o","\n">>,
    <<"#","t","o","d","\n">> }

LineFiles ==
  {File(<<l>>, p, <<OtherNode, BadFunction>>) :
     l \in CharLines \cup KeywordLines, p \in BOOLEAN}

\* function names, character by character (an identifier starts with no digit)
NameAlphabet == {"_", "a", "A", "1"}

FunctionNames ==
  {n \in Strings(NameAlphabet, MaxNameLen) : n # <<>> /\ n[1] # "1"}

NameFiles ==
  {File(<<<<"x", "\n">>>>, TRUE,
        <<OtherNode, FunctionDef(n, 1, <<>>, <<>>, <<>>)>>) :
     n \in FunctionNames}

\* declaration nodes of the tree runs
ArgLists == {<<>>, <<<<"a">>, <<"B">>, <<"C">>>>}

DefaultLists == {<<>>, <<"Dict">>, <<"Constant", "List", "Set">>}

Bodies ==
  { <<>>,
    <<Pass, Assign(<<Name(<<"Y">>, 3), Attribute(3), Name(<<"o", "k">>, 3)>>)>>,
    <<Assign(<<Name(<<"r">>, 4)>>), Assign(<<Name(<<"a", "b", "_">>, 5)>>)>> }

NodeCat ==
  {FunctionDef(n, 2, a, d, b) :
     n \in {<<"f">>, <<"_", "F">>}, a \in ArgLists, d \in DefaultLists,
     b \in Bodies}
  \cup {ClassDef(<<"c">>, 7), ClassDef(<<"C">>, 7), OtherNode}

TreeFiles ==
  {File(<<<<"x", "\n">>>>, TRUE, ns) :
     ns \in (Strings(NodeCat, MaxNodes) \ {<<>>})}

(* --------------------------- the analyzer ----------------------------- *)

\* StaticCodeAnalyzer(path): a new object, run() not yet called
Constructed(f) ==
  /\ file = f
  /\ count_blank_lines_in_row = 0
  /\ pc = "ready"
  /\ number_line = 1
  /\ node_idx = 1
  /\ output = <<>>
  /\ prev = None
  /\ runs = 0

Init == \E f \in Files : Constructed(f)

InitLine == \E f \in LineFiles : Constructed(f)

InitName == \E f \in NameFiles : Constructed(f)

InitTree == \E f \in TreeFiles : Constructed(f)

\* run() that scans the lines before it parses: a failed parse then follows the
\* whole line scan (a bug the code does not have)
RECURSIVE scan_all(_, _, _)
scan_all(i, lines, count) ==
  IF i > Len(lines) THEN [count |-> count, printed |-> <<>>]
  ELSE LET r == check_errors(1, i, lines[i], count)
           rest == scan_all(i + 1, lines, r.count)
       IN [count |-> rest.count, printed |-> r.printed \o rest.printed]

ParseAfterScan ==
  /\ pc = "ready"
  /\ IF file.parses
       THEN /\ pc' = "scan"
            /\ UNCHANGED <<count_blank_lines_in_row, output>>
       ELSE LET r == scan_all(1, file.lines, count_blank_lines_in_row)
            IN /\ pc' = "aborted"
               /\ count_blank_lines_in_row' = r.count
               /\ output' = r.printed
  /\ UNCHANGED <<file, number_line, node_idx, prev, runs>>

\* run(), up to the line loop: open, ast.parse(f.read()), f.seek(0, 0); a
\* SyntaxError of ast.parse leaves run() before any line is read
Parse ==
  /\ pc = "ready"
  /\ pc' = IF file.parses THEN "scan" ELSE "aborted"
  /\ UNCHANGED <<file, count_blank_lines_in_row, number_line, node_idx,
                 output, prev, runs>>

\* one turn of `for number_line, line in enumerate(f, start=1)`
ScanLine ==
  /\ pc = "scan"
  /\ number_line <= Len(file.lines)
  /\ LET r == check_errors(1, number_line, file.lines[number_line],
                           count_blank_lines_in_row)
     IN /\ count_blank_lines_in_row' = r.count
        /\ output' = output \o r.printed
  /\ number_line' = number_line + 1
  /\ UNCHANGED <<file, pc, node_idx, prev, runs>>

\* the line loop ends, the file is closed and ast.walk(tree) starts
StartWalk ==
  /\ pc = "scan"
  /\ number_line > Len(file.lines)
  /\ pc' = "walk"
  /\ UNCHANGED <<file, count_blank_lines_in_row, number_line, node_idx,
                 output, prev, runs>>

\* one turn of `for node in ast.walk(tree)`
VisitNode ==
  /\ pc = "walk"
  /\ node_idx <= Len(file.nodes)
  /\ output' = output \o visit(file.nodes[node_idx])
  /\ node_idx' = node_idx + 1
  /\ UNCHANGED <<file, count_blank_lines_in_row, pc, number_line, prev, runs>>

\* run() returns
Return ==
  /\ pc = "walk"
  /\ node_idx > Len(file.nodes)
  /\ pc' = "done"
  /\ UNCHANGED <<file, count_blank_lines_in_row, number_line, node_idx,
                 output, prev, runs>>

\* run() is called again on the same object, the file unchanged: nothing of
\* the object is re-initialised (prev keeps what the run before printed)
Rerun ==
  /\ pc \in {"done", "aborted"}
  /\ runs < MaxRuns
  /\ runs' = runs + 1
  /\ prev' = output
  /\ output' = <<>>
  /\ pc' = "ready"
  /\ number_line' = 1
  /\ node_idx' = 1
  /\ UNCHANGED <<file, count_blank_lines_in_row>>

\* the driver: call_analyzer_error(path) for the next path, a new object each
\* time (prev keeps the last run's print-out when the path holds the same text)
NextFile ==
  /\ pc = "done"
  /\ runs < MaxRuns
  /\ \E f \in Files :
       /\ file' = f
       /\ prev' = IF f = file THEN output ELSE None
  /\ runs' = runs + 1
  /\ count_blank_lines_in_row' = 0
  /\ output' = <<>>
  /\ pc' = "ready"
  /\ number_line' = 1
  /\ node_idx' = 1

\* one analysis
NextRun == Parse \/ ScanLine \/ StartWalk \/ VisitNode \/ Return

\* the program: the driver of __main__
NextDriver == NextRun \/ NextFile

\* any use of the class
Next == NextRun \/ Rerun \/ NextFile

Spec == Init /\ [][Next]_vars

SpecDriver == Init /\ [][NextDriver]_vars

SpecLine == InitLine /\ [][NextRun]_vars

SpecName == InitName /\ [][NextRun]_vars

SpecTree == InitTree /\ [][NextRun]_vars

(* --------------------- vocabulary of the properties -------------------- *)

LineCodes == {"S001", "S002", "S003", "S004", "S005", "S006", "S007"}

TreeCodes == {"S008", "S009", "S010", "S011", "S012"}

\* the number of physical lines the current run has scanned
Scanned == number_line - 1

\* the Line Scanner's diagnostics for physical line k, in print order
DiagsOn(k) == SelectSeq(output, LAMBDA d : d.line = k /\ d.code \in LineCodes)

CodesOf(diags) == [i \in 1..Len(diags) |-> diags[i].code]

Emitted(k, code) == \E i \in 1..Len(output) :
                      output[i].line = k /\ output[i].code = code

\* what the step at hand prints
Appended == SubSeq(output', Len(output) + 1, Len(output'))

\* a blank line: empty or whitespace-only before its terminator
IsBlank(l) == \A i \in 1..Len(l) : l[i] \in Whitespace

\* the length of the run of blank lines that ends right before line k
BlankRunBefore(k) ==
  LET code_lines == {j \in 1..(k - 1) : ~IsBlank(file.lines[j])}
  IN IF code_lines = {} THEN k - 1
     ELSE (k - 1) - (CHOOSE j \in code_lines : \A m \in code_lines : m <= j)

\* the number of leading underscores of a name
LeadingUnderscores(name) ==
  CHOOSE n \in 0..Len(name) :
    /\ \A i \in 1..n : name[i] = "_"
    /\ n = Len(name) \/ name[n + 1] # "_"

(* ------------------------------- C1 ----------------------------------- *)

\* C1 (as claimed): the Line Scanner is first-match-wins, so it prints at most
\* one diagnostic for a physical line.
C1_FirstMatchWins == \A k \in 1..Scanned : Len(DiagsOn(k)) <= 1

\* C1 (amended): the scan of a line calls every rule, in the order S001, S002,
\* S003, S004, S005, S006, S007(class), S007(def), whatever the earlier rules
\* did; the line's print-out is one diagnostic for each rule whose own
\* condition holds, in that order, each with the line's number.
C1_EveryRuleApplied ==
  [][(pc = "scan" /\ number_line' = number_line + 1) =>
       LET line == file.lines[number_line]
           outcome(i) == call(check_funcs[i], line, count_blank_lines_in_row)
           fired == {i \in 1..Len(check_funcs) : outcome(i).raised}
           nth(j) == CHOOSE i \in fired :
                       Cardinality({m \in fired : m < i}) = j - 1
       IN /\ SubSeq(output', 1, Len(output)) = output
          /\ Len(Appended) = Cardinality(fired)
          /\ \A j \in 1..Len(Appended) :
               /\ Appended[j].line = number_line
               /\ Appended[j].code = outcome(nth(j)).code
               /\ Appended[j].error = outcome(nth(j)).error]_vars

\* a line of more than 79 characters that ends with ';' got S001 and then S003
C1_LongAndSemicolon ==
  /\ Scanned >= 1
  /\ Len(file.lines[1]) > long
  /\ CodesOf(DiagsOn(1)) = <<"S001", "S003">>

(* ------------------------------- C2 ----------------------------------- *)

\* C2: of the lines scanned so far, S006 is printed for line k exactly once if
\* line k is not blank and the run of blank lines right before it is longer
\* than 2, and not at all otherwise (a blank line, a run of 2 or fewer),
\* whatever else is printed for the blank lines or for line k.
C2_S006AfterLongBlankRun ==
  \A k \in 1..Scanned :
    Cardinality({i \in 1..Len(output) :
                   output[i].line = k /\ output[i].code = "S006"})
      = IF ~IsBlank(file.lines[k]) /\ BlankRunBefore(k) > 2 THEN 1 ELSE 0

\* S006 on a line that also got S003, after a run holding a whitespace-only
\* line that got S002
C2_S006WithOtherRules ==
  \E k \in 1..Scanned :
    /\ CodesOf(DiagsOn(k)) = <<"S003", "S006">>
    /\ BlankRunBefore(k) = 3
    /\ \E j \in (k - 3)..(k - 1) : Emitted(j, "S002")

(* ------------------------------- C3 ----------------------------------- *)

\* C3: every analysis run starts its line scan with the blank-line counter 0.
C3_CounterZeroAtScanStart ==
  (pc = "scan" /\ number_line = 1) => count_blank_lines_in_row = 0

(* ------------------------------- C4 ----------------------------------- *)

\* C4: a run on the file the run before analysed, unchanged, prints the same
\* diagnostics in the same order.
C4_Idempotent == (pc = "done" /\ prev # None) => output = prev

(* ------------------------------- C5 ----------------------------------- *)

\* C5: S002 is never printed for a blank line, however many whitespace
\* characters it has.
C5_BlankNeverS002 ==
  \A k \in 1..Scanned : IsBlank(file.lines[k]) => ~Emitted(k, "S002")

(* ------------------------------- C6 ----------------------------------- *)

\* the function definition the name runs declare, once it is visited
VisitedName == file.nodes[2].name

\* C6 (as claimed): S009 is printed for a function name exactly when it has
\* three or more leading underscores, or zero to two leading underscores and
\* then a character that is neither a lowercase letter nor an underscore.
C6_ThreeUnderscoresFire ==
  node_idx > 2 =>
    LET n == LeadingUnderscores(VisitedName)
    IN Emitted(file.nodes[2].lineno, "S009") <=>
         \/ n >= 3
         \/ /\ n < Len(VisitedName)
            /\ VisitedName[n + 1] \notin (Lower \cup {"_"})

\* C6 (amended): S009 is printed for a function name exactly when it has zero
\* to two leading underscores and then a character that is not a lowercase
\* letter; a name of three or more leading underscores never gets S009.
C6_AtMostTwoUnderscores ==
  node_idx > 2 =>
    LET n == LeadingUnderscores(VisitedName)
    IN Emitted(file.nodes[2].lineno, "S009") <=>
         /\ n <= 2
         /\ n < Len(VisitedName)
         /\ VisitedName[n + 1] \notin Lower

\* a visited name of three leading underscores and an uppercase letter, no S009
C6_ThreeUnderscoresSilent ==
  /\ node_idx > 2
  /\ VisitedName = <<"_", "_", "_", "A">>
  /\ ~Emitted(file.nodes[2].lineno, "S009")

(* ------------------------------- C7 ----------------------------------- *)

\* C7: S004 is printed for a line exactly when somewhere in it a character
\* that is neither '#' nor a space is followed by zero or one space and '#'.
C7_InlineCommentOnly ==
  \A k \in 1..Scanned :
    LET l == file.lines[k]
    IN Emitted(k, "S004") <=>
         \E i \in 1..Len(l) :
           /\ l[i] \notin {"#", " "}
           /\ \/ i + 1 <= Len(l) /\ l[i + 1] = "#"
              \/ i + 2 <= Len(l) /\ l[i + 1] = " " /\ l[i + 2] = "#"

(* ------------------------------- C8 ----------------------------------- *)

\* C8: S003 is printed for a line exactly when the text before its first '#',
\* with all trailing whitespace trimmed, ends with ';'.
C8_SemicolonBeforeAnyWhitespace ==
  \A k \in 1..Scanned :
    Emitted(k, "S003") <=>
      endswith(rstrip(split0(file.lines[k], "#"), Whitespace), ";")

(* ------------------------------- C9 ----------------------------------- *)

\* the place of a code in the order name, arguments, defaults, assignments
Rank(code) == CASE code = "S009" -> 1 [] code = "S010" -> 2
                [] code = "S012" -> 3 [] code = "S011" -> 4 [] OTHER -> 0

\* C9: the visit of a function definition prints its diagnostics in one block
\* after everything printed before: S009 (at most one), then one S010 for each
\* offending argument in argument order, then S012, then S011; S009, S010 and
\* S012 carry the declaration line, S011 the line of its assignment target.
C9_TreeOrder ==
  [][(pc = "walk" /\ node_idx' = node_idx + 1
        /\ file.nodes[node_idx].kind = "FunctionDef") =>
       LET node == file.nodes[node_idx]
           new == Appended
           of(code) == SelectSeq(new, LAMBDA d : d.code = code)
           bad_args == SelectSeq(node.args,
                                 LAMBDA a : a[1] \notin (Lower \cup {"_"}))
           mutable == SelectSeq(node.defaults,
                                LAMBDA d : d \in {"List", "Dict", "Set"})
           targets == {t \in UNION {{st.targets[i] : i \in 1..Len(st.targets)} :
                                      st \in {node.body[i] : i \in 1..Len(node.body)}} :
                         t.kind = "Name"}
       IN /\ SubSeq(output', 1, Len(output)) = output
          /\ \A i \in 1..Len(new) : Rank(new[i].code) > 0
          /\ \A i, j \in 1..Len(new) :
               i < j => Rank(new[i].code) <= Rank(new[j].code)
          /\ Len(of("S009")) <= 1
          /\ [i \in 1..Len(of("S010")) |-> of("S010")[i].name] = bad_args
          /\ Len(of("S012")) = Len(mutable)
          /\ \A i \in 1..Len(new) :
               IF new[i].code = "S011"
                 THEN \E t \in targets :
                        t.id = new[i].name /\ t.lineno = new[i].line
                 ELSE new[i].line = node.lineno]_vars

\* a function with a bad name, two bad arguments, two mutable defaults and a
\* bad local variable was visited first
C9_AllFourKinds ==
  /\ pc = "walk"
  /\ node_idx = 2
  /\ CodesOf(output) = <<"S009", "S010", "S010", "S012", "S012", "S011">>
  /\ output[6].line # output[1].line

(* ------------------------------- C10 ---------------------------------- *)

\* C10: run() parses the whole file before it scans the first line: for a file
\* whose parse fails nothing is printed, no line is scanned and the blank-line
\* counter stays as it was; for a file that parses every Line Scanner
\* diagnostic is printed before any Tree Inspector diagnostic.
C10_ParseBeforeScan ==
  /\ [](~file.parses => output = <<>> /\ Scanned = 0)
  /\ [](\A i, j \in 1..Len(output) :
          (output[i].code \in TreeCodes /\ output[j].code \in LineCodes)
            => j < i)
  /\ [][~file.parses =>
          count_blank_lines_in_row' = count_blank_lines_in_row]_vars

\* a file with a line that would get S003 failed to parse, nothing printed
C10_AbortedSilently ==
  /\ pc = "aborted"
  /\ \E k \in 1..Len(file.lines) : file.lines[k] = <<"x", ";", "\n">>
  /\ output = <<>>

=============================================================================
